---- MODULE Spec2Model ----
(***************************************************************************)
(* A model of the PDF generation API (WesleyMarinho/pdf-api).              *)
(*                                                                         *)
(*   Spec        the file store of src/src/app.js: the storage directory,  *)
(*               the clock, the timer-driven sweep (cleanupOldFiles), the  *)
(*               file written by page.pdf, GET /download and GET /view.    *)
(*   SpecGen     the POST /generate-pdf handler of src/src/app.js.         *)
(*   SpecServer  the POST /generate-pdf handler of src/server.js, which    *)
(*               races the render pipeline against PDF_GENERATION_TIMEOUT. *)
(*   SpecWaiter  the readiness waiter (waitForContentLoad) of app.js.      *)
(*   LiveSpec and SpecWaiterLive are Spec and SpecWaiter under fair        *)
(*   scheduling.                                                           *)
(*                                                                         *)
(* Every specification uses the same variables; each leaves the variables  *)
(* of the other components at their initial value.                         *)
(***************************************************************************)
EXTENDS Integers, Sequences, FiniteSets, TLC

(***************************************************************************)
(* Bounds of the model.                                                    *)
(***************************************************************************)
\* The clock runs from 0 to MaxNow.
MaxNow == 4

\* The <img> elements of a page are 1..MaxImages.
MaxImages == 2

\* A waiting phase is observed at this many instants up to its timeout.
Slices == 2

(***************************************************************************)
(* Configuration (src/src/config/environment.js).  FILE_EXPIRATION_MS is   *)
(* parseInt(process.env.FILE_EXPIRATION_MS) || 604800000: any positive     *)
(* integer the environment sets.  The model runs with a TTL of 2 clock     *)
(* units.                                                                  *)
(***************************************************************************)
FILE_EXPIRATION_MS == 2

(***************************************************************************)
(* File names are sequences of one-character strings.                      *)
(***************************************************************************)
Lower == {"a","b","c","d","e","f","g","h","i","j","k","l","m",
          "n","o","p","q","r","s","t","u","v","w","x","y","z"}

Upper == {"A","B","C","D","E","F","G","H","I","J","K","L","M",
          "N","O","P","Q","R","S","T","U","V","W","X","Y","Z"}

Digit == {"0","1","2","3","4","5","6","7","8","9"}

\* The character class [a-zA-Z0-9_-] of the filename pattern.
NameChars == Lower \cup Upper \cup Digit \cup {"_", "-"}

DotPdf == <<".", "p", "d", "f">>

\* filename.includes('..')
IncludesDotDot(fn) ==
    \E i \in 1..(Len(fn) - 1) : fn[i] = "." /\ fn[i + 1] = "."

\* a pattern that admits letters only before the suffix
MatchesPdfPattern_LettersOnly(fn) ==
    /\ Len(fn) >= 5
    /\ SubSeq(fn, Len(fn) - 3, Len(fn)) = DotPdf
    /\ \A i \in 1..(Len(fn) - 4) : fn[i] \in Lower \cup Upper

\* /^[a-f0-9]+\.pdf$/.test(filename), the pattern of the earlier routes
MatchesHexPattern(fn) ==
    /\ Len(fn) >= 5
    /\ SubSeq(fn, Len(fn) - 3, Len(fn)) = DotPdf
    /\ \A i \in 1..(Len(fn) - 4) : fn[i] \in Digit \cup {"a", "b", "c", "d", "e", "f"}

\* /^[a-zA-Z0-9_-]+\.pdf$/.test(filename)
MatchesPdfPattern(fn) ==
    /\ Len(fn) >= 5
    /\ SubSeq(fn, Len(fn) - 3, Len(fn)) = DotPdf
    /\ \A i \in 1..(Len(fn) - 4) : fn[i] \in NameChars

\* A looser test, as in the one-shot download route: only '..' and '/'.
InvalidFilename_NoPattern(fn) ==
    IncludesDotDot(fn) \/ (\E i \in 1..Len(fn) : fn[i] = "/")

\* !filename || filename.includes('..') || !/^[a-zA-Z0-9_-]+\.pdf$/.test(filename)
InvalidFilename(fn) ==
    Len(fn) = 0 \/ IncludesDotDot(fn) \/ ~MatchesPdfPattern(fn)

(***************************************************************************)
(* crypto.randomBytes(20).toString('hex'): the tokens the model can draw.  *)
(* A token is drawn at most once (a 160-bit random value does not repeat). *)
(***************************************************************************)
HexTokens == { <<"a", "0">>, <<"0", "f">> }

\* The store specification follows one generated file and the foreign file.
StoreTokens == { <<"a", "0">> }

GeneratedName(tok) == tok \o DotPdf

GenNames == { GeneratedName(tok) : tok \in HexTokens }

\* the documented treatment of a custom filename: characters outside
\* letters, digits, hyphen and underscore stripped, ".pdf" appended
SanitizedName(hint) == SelectSeq(hint, LAMBDA c : c \in NameChars) \o DotPdf

\* A file the operator left in the storage directory; not a valid name.
ForeignNames == { <<"a", ".", ".", "p", "d", "f">> }

\* The names a file of the storage directory can have.
FileNames == GenNames \cup ForeignNames

\* the files the store can hold
StoreNames == { GeneratedName(tok) : tok \in StoreTokens } \cup ForeignNames

\* The :filename parameters the model sends to /download and /view.
ReqNames ==
    FileNames \cup
    { <<"a", "_", "B", "-", "1", ".", "p", "d", "f">>,
      <<".", ".", "/", "a", "0", ".", "p", "d", "f">>,
      <<"a", "/", "0", ".", "p", "d", "f">>,
      <<"a", "\\", "0", ".", "p", "d", "f">>,
      <<".", "p", "d", "f">>,
      <<"a", "0", ".", "p", "d", "f", "x">>,
      <<"a", "0", ".", "t", "x", "t">> }

Sweeps == {"s1", "s2"}

Kinds == {"download", "view"}

VARIABLES
    now,        \* Date.now()
    mtime,      \* the storage directory: mtime of each file, Absent if none
    issued,     \* the random tokens drawn so far
    sweep,      \* the running invocations of cleanupOldFiles
    dl,         \* the GET /download or GET /view request being served
    crashed,    \* the process died of an uncaught exception
    pair,       \* bookkeeping: the last two sweeps that ran one after the other
    gen,        \* app.js: the POST /generate-pdf requests
    proc,       \* app.js: the browser process launched for each request
    env,        \* app.js: the configuration of the process
    fl,         \* app.js: the GET /files request being served
    srv,        \* server.js: the POST /generate-pdf requests
    sproc,      \* server.js: the browser process launched for each request
    w,          \* waitForContentLoad: position, clocks and outcome
    ip,         \* waitForImagesLoad: the variables of the in-page promise
    img,        \* the <img> elements of the page
    page        \* the globals of the page (window.ApexCharts, window.Reports)

storeVars == <<now, mtime, issued, sweep, dl, crashed, pair>>

genVars == <<gen, proc, env>>

srvVars == <<srv, sproc>>

waitVars == <<w, ip, img, page>>

vars == <<storeVars, genVars, fl, srvVars, waitVars>>

\* what the actions of each component leave unchanged
storeFrame == <<genVars, fl, srvVars, waitVars>>

genFrame == <<now, sweep, dl, crashed, pair, env, fl, srvVars, waitVars>>

filesFrame == <<storeVars, genVars, srvVars, waitVars>>

srvFrame == <<now, sweep, dl, crashed, pair, genVars, fl, waitVars>>

waitFrame == <<storeVars, genVars, fl, srvVars>>

Absent == -1

Present(f) == f \in FileNames /\ mtime[f] # Absent

\* fs.readdir: the names in the directory
Listing == { f \in FileNames : mtime[f] # Absent }

\* The expiry test with >= in place of >.
ExpiredAt_Boundary(m, t) == t - m >= FILE_EXPIRATION_MS

\* Date.now() - stats.mtime.getTime() > FILE_EXPIRATION_MS
ExpiredAt(m, t) == t - m > FILE_EXPIRATION_MS

Expired(f) == ExpiredAt(mtime[f], now)

IdleSweep == [phase |-> "idle", toStat |-> {}, toUnlink |-> {}, deletedCount |-> 0]

IdleDl == [pc |-> "idle", kind |-> "download", name |-> <<>>, status |-> 0, fsOps |-> 0]

NoPair == [valid |-> FALSE, slot |-> "s1", created |-> FALSE, crossed |-> FALSE,
           failed |-> FALSE]

\* the store with an empty directory
StoreIdle ==
    /\ now = 0
    /\ mtime = [f \in FileNames |-> Absent]
    /\ issued = {}
    /\ sweep = [s \in Sweeps |-> IdleSweep]
    /\ dl = IdleDl
    /\ crashed = FALSE
    /\ pair = [prev |-> NoPair, run |-> NoPair]

StoreInit ==
    /\ now = 0
    /\ mtime \in [FileNames -> {Absent, 0}]
    /\ \A f \in GenNames : mtime[f] = Absent
    /\ issued = {}
    /\ sweep = [s \in Sweeps |-> IdleSweep]
    /\ dl = IdleDl
    /\ crashed = FALSE
    /\ pair = [prev |-> NoPair, run |-> NoPair]

(***************************************************************************)
(* Bookkeeping for "two sweeps in succession": run is the sweep that is    *)
(* running alone, prev the sweep that last ran alone to its end.  The      *)
(* flags of a record say what happened since that sweep started: a file    *)
(* was created, a file in the directory passed its expiry, a readdir, stat *)
(* or unlink of that sweep failed.                                         *)
(***************************************************************************)
\* a sweep runs after another one has ended, and no file was created since
\* the earlier one started
SecondSweepRuns == pair.run.valid /\ pair.prev.valid /\ ~pair.prev.created

FreshPair(s) == [valid |-> TRUE, slot |-> s, created |-> FALSE, crossed |-> FALSE,
                 failed |-> FALSE]

Mark(r, field) == IF r.valid THEN [r EXCEPT ![field] = TRUE] ELSE r

PairMark(field) == [prev |-> Mark(pair.prev, field), run |-> Mark(pair.run, field)]

PairOnStart(s) ==
    IF \A t \in Sweeps : sweep[t].phase = "idle"
    THEN [pair EXCEPT !.run = FreshPair(s)]
    ELSE [prev |-> NoPair, run |-> NoPair]

PairOnFail(p, s, failure) ==
    IF failure /\ p.run.valid /\ p.run.slot = s
    THEN [p EXCEPT !.run.failed = TRUE]
    ELSE p

PairOnEnd(p, s, ended) ==
    IF ~ended THEN p
    ELSE IF p.run.valid /\ p.run.slot = s
         THEN [prev |-> p.run, run |-> NoPair]
         ELSE [prev |-> NoPair, run |-> p.run]

(***************************************************************************)
(* The clock.                                                              *)
(***************************************************************************)
Tick ==
    /\ now < MaxNow
    /\ now' = now + 1
    /\ pair' = IF \E f \in Listing :
                    ~ExpiredAt(mtime[f], now) /\ ExpiredAt(mtime[f], now + 1)
               THEN PairMark("crossed")
               ELSE pair
    /\ UNCHANGED <<mtime, issued, sweep, dl, crashed, storeFrame>>

(***************************************************************************)
(* page.pdf({path: outputPath, ...}) of POST /generate-pdf writes the file *)
(* `${crypto.randomBytes(20).toString('hex')}.pdf`.  A file is written     *)
(* only while it can still expire before the clock stops.                  *)
(***************************************************************************)
WriteFile(tok) ==
    /\ tok \in HexTokens \ issued
    /\ issued' = issued \cup {tok}
    /\ mtime' = [mtime EXCEPT ![GeneratedName(tok)] = now]

GenPdf ==
    /\ ~crashed
    /\ now + FILE_EXPIRATION_MS < MaxNow
    /\ \E tok \in StoreTokens : WriteFile(tok)
    /\ pair' = PairMark("created")
    /\ UNCHANGED <<now, sweep, dl, crashed, storeFrame>>

(***************************************************************************)
(* cleanupOldFiles, run by setInterval(cleanupOldFiles, CLEANUP_INTERVAL_MS)*)
(***************************************************************************)
\* the timer fires: fs.readdir(OUTPUT_DIR, callback) is issued.  The
\* invocations are interchangeable: "s2" is used only while "s1" is running.
SweepStart(s) ==
    /\ ~crashed
    /\ sweep[s].phase = "idle"
    /\ (s = "s2" => sweep["s1"].phase # "idle")
    /\ sweep' = [sweep EXCEPT ![s].phase = "readdir"]
    /\ pair' = PairOnStart(s)
    /\ UNCHANGED <<now, mtime, issued, dl, crashed, storeFrame>>

\* the readdir callback: on error return; with no files return; else one
\* fs.stat per file
SweepReaddir(s, ok) ==
    /\ ~crashed
    /\ sweep[s].phase = "readdir"
    /\ LET ended == ~ok \/ Listing = {}
       IN /\ sweep' = [sweep EXCEPT ![s] =
                IF ~ok THEN IdleSweep
                ELSE IF Listing = {} THEN IdleSweep
                ELSE [phase |-> "run", toStat |-> Listing, toUnlink |-> {},
                      deletedCount |-> 0]]
          /\ pair' = PairOnEnd(PairOnFail(pair, s, ~ok), s, ended)
    /\ UNCHANGED <<now, mtime, issued, dl, crashed, storeFrame>>

\* the expiry test of the stat callback
UnlinkDue_OnePerSweep(s, f) ==
    Expired(f) /\ sweep[s].toUnlink = {} /\ sweep[s].deletedCount = 0

UnlinkDue(s, f) == Expired(f)

SweepEnded(sw) == sw.toStat = {} /\ sw.toUnlink = {}

Settle(sw) == IF SweepEnded(sw) THEN IdleSweep ELSE sw

\* a sweep whose first failing callback abandons the files still pending
OnFileError_AbortsSweep(sw) == [sw EXCEPT !.toStat = {}, !.toUnlink = {}]

\* if (err) { logOperation(...); return; } ends that callback only; the
\* callbacks of the other files are untouched
OnFileError(sw) == sw

\* the files an invocation of cleanupOldFiles still has to stat or unlink
Pending(sw) == IF sw.phase = "run" THEN sw.toStat \cup sw.toUnlink ELSE {}

\* the stat callback of one file: on error return; if the file is older than
\* the TTL, fs.unlink is issued
SweepStat(s, f, ok) ==
    /\ ~crashed
    /\ sweep[s].phase = "run"
    /\ f \in sweep[s].toStat
    /\ LET failure == ~ok \/ ~Present(f)
           due == ~failure /\ UnlinkDue(s, f)
           sw0 == [sweep[s] EXCEPT !.toStat = @ \ {f},
                                   !.toUnlink = IF due THEN @ \cup {f} ELSE @]
           sw == IF failure THEN OnFileError(sw0) ELSE sw0
       IN /\ sweep' = [sweep EXCEPT ![s] = Settle(sw)]
          /\ pair' = PairOnEnd(PairOnFail(pair, s, failure), s, SweepEnded(sw))
    /\ UNCHANGED <<now, mtime, issued, dl, crashed, storeFrame>>

\* fs.unlink and its callback: the file is removed and counted, or the error
\* is logged
SweepUnlink(s, f, ok) ==
    /\ ~crashed
    /\ sweep[s].phase = "run"
    /\ f \in sweep[s].toUnlink
    /\ LET failure == ~ok \/ ~Present(f)
           sw0 == [sweep[s] EXCEPT !.toUnlink = @ \ {f},
                                   !.deletedCount = IF failure THEN @ ELSE @ + 1]
           sw == IF failure THEN OnFileError(sw0) ELSE sw0
       IN /\ sweep' = [sweep EXCEPT ![s] = Settle(sw)]
          /\ mtime' = IF failure THEN mtime ELSE [mtime EXCEPT ![f] = Absent]
          /\ pair' = PairOnEnd(PairOnFail(pair, s, failure), s, SweepEnded(sw))
    /\ UNCHANGED <<now, issued, dl, crashed, storeFrame>>

(***************************************************************************)
(* GET /download/:filename and GET /view/:filename.                        *)
(***************************************************************************)
\* the request arrives; an invalid filename is answered 400
DlRequest(kind, name) ==
    /\ ~crashed
    /\ dl.pc = "idle"
    /\ dl' = IF InvalidFilename(name)
             THEN [pc |-> "done", kind |-> kind, name |-> name, status |-> 400,
                   fsOps |-> 0]
             ELSE [pc |-> "exists", kind |-> kind, name |-> name, status |-> 0,
                   fsOps |-> 0]
    /\ UNCHANGED <<now, mtime, issued, sweep, crashed, pair, storeFrame>>

\* if (!fs.existsSync(filePath)) return res.status(404)
DlExists ==
    /\ ~crashed
    /\ dl.pc = "exists"
    /\ dl' = IF Present(dl.name)
             THEN [dl EXCEPT !.pc = "stat", !.fsOps = @ + 1]
             ELSE [dl EXCEPT !.pc = "done", !.status = 404, !.fsOps = @ + 1]
    /\ UNCHANGED <<now, mtime, issued, sweep, crashed, pair, storeFrame>>

\* fs.statSync(filePath); a throw is caught and answered 500
DlStat ==
    /\ ~crashed
    /\ dl.pc = "stat"
    /\ dl' = IF Present(dl.name)
             THEN [dl EXCEPT !.pc = "open", !.fsOps = @ + 1]
             ELSE [dl EXCEPT !.pc = "done", !.status = 500, !.fsOps = @ + 1]
    /\ UNCHANGED <<now, mtime, issued, sweep, crashed, pair, storeFrame>>

\* the directory after a handler that deletes the file it has sent, as the
\* one-shot download route does
DirAfterSend_OneShot(f) == [mtime EXCEPT ![f] = Absent]

\* the directory after the file has been piped to the response: nothing
\* follows fileStream.pipe(res)
DirAfterSend(f) == mtime

\* fs.createReadStream(filePath).pipe(res): the stream opens the file later.
\* The stream has no 'error' listener: when the open fails, the 'error'
\* event is thrown as an uncaught exception.
DlOpen ==
    /\ ~crashed
    /\ dl.pc = "open"
    /\ IF Present(dl.name)
       THEN /\ dl' = [dl EXCEPT !.pc = "done", !.status = 200, !.fsOps = @ + 1]
            /\ mtime' = DirAfterSend(dl.name)
            /\ UNCHANGED crashed
       ELSE /\ dl' = [dl EXCEPT !.pc = "done", !.fsOps = @ + 1]
            /\ crashed' = TRUE
            /\ UNCHANGED mtime
    /\ UNCHANGED <<now, issued, sweep, pair, storeFrame>>

\* the response has been sent; the next request can arrive
DlDone ==
    /\ ~crashed
    /\ dl.pc = "done"
    /\ dl' = IdleDl
    /\ UNCHANGED <<now, mtime, issued, sweep, crashed, pair, storeFrame>>

StoreNext ==
    \/ Tick
    \/ GenPdf
    \/ \E s \in Sweeps : SweepStart(s)
    \/ \E s \in Sweeps, ok \in BOOLEAN : SweepReaddir(s, ok)
    \/ \E s \in Sweeps, f \in FileNames, ok \in BOOLEAN : SweepStat(s, f, ok)
    \/ \E s \in Sweeps, f \in FileNames, ok \in BOOLEAN : SweepUnlink(s, f, ok)
    \/ \E kind \in Kinds, name \in ReqNames : DlRequest(kind, name)
    \/ DlExists
    \/ DlStat
    \/ DlOpen
    \/ DlDone

(***************************************************************************)
(* POST /generate-pdf of src/src/app.js.                                   *)
(***************************************************************************)
Reqs == {"r1", "r2"}

Keys == {"valid", "wrong", "missing"}

Urls == {"missing", "malformed", "ok"}

\* the routes of the application
Routes == {"generate-pdf", "files", "debug-page", "status", "download", "view"}

\* the routes registered with the apiKeyAuth middleware
Protected == {"generate-pdf", "files", "debug-page"}

\* the "filename" field of the request body: absent, or a custom name
NoHint == <<>>

Hints == { NoHint, <<"r", "/", "1">> }

\* the "landscape" field of the request body: absent, a boolean, or a value
\* of another type
LandscapeFields == {"absent", "true", "false", "string"}

NoTok == <<>>

\* the JSON body of a response, "none" where a property is absent
NoBody == [success |-> "none", details |-> "none", expiresIn |-> "none",
           filename |-> NoTok]

\* the configurations of the process: API_KEY set or not (environment.js
\* insists on it unless NODE_ENV is "test"), FILE_EXPIRATION_MS set to one
\* hour or left to its default
HourMs == 3600000

DefaultExpirationMs == 604800000

Envs ==
    { [apiKey |-> TRUE,  expirationMs |-> DefaultExpirationMs],
      [apiKey |-> TRUE,  expirationMs |-> HourMs],
      [apiKey |-> FALSE, expirationMs |-> DefaultExpirationMs] }

DefaultEnv == [apiKey |-> TRUE, expirationMs |-> DefaultExpirationMs]

IdleGen == [pc |-> "idle", browser |-> FALSE, status |-> 0, tok |-> NoTok,
            route |-> "none", key |-> "none", url |-> "none", hint |-> NoHint,
            reached |-> FALSE, launches |-> 0, replies |-> 0, err |-> "none",
            body |-> NoBody,
            field |-> "none", export |-> "none"]

GenInit ==
    /\ gen = [r \in Reqs |-> IdleGen]
    /\ proc = [r \in Reqs |-> "none"]
    /\ env = DefaultEnv

\* the handlers started under any configuration
GenInitAny ==
    /\ gen = [r \in Reqs |-> IdleGen]
    /\ proc = [r \in Reqs |-> "none"]
    /\ env \in Envs

\* a key check that lets a request without a key through
KeyAccepted_MissingAllowed(key) == key # "wrong"

\* apiKeyAuth: providedKey && providedKey === API_KEY
KeyAccepted(key) == key = "valid"

\* apiKeyAuth: 500 without a configured API_KEY, next() for the right key,
\* 401 otherwise
ApiKeyAuth(key) ==
    IF ~env.apiKey THEN 500
    ELSE IF KeyAccepted(key) THEN 0
    ELSE 401

\* a url check that only rejects a url that does not parse
UrlAccepted_ParseOnly(url) == url # "malformed"

\* if (!url) ... 400; try { new URL(url) } catch ... 400
UrlAccepted(url) == url = "ok"

\* the duration that the text of expiresIn denotes
DurationMs(text) == IF text = "1 hour" THEN HourMs ELSE 0

\* a request that apiKeyAuth (reached FALSE) or the handler's validation
\* (reached TRUE) answers at once
Answered(route, key, url, hint, reached, status) ==
    [IdleGen EXCEPT !.pc = "done", !.status = status, !.route = route,
                    !.key = key, !.url = url, !.hint = hint,
                    !.reached = reached, !.replies = 1]

\* POST /generate-pdf arrives at its route, past the HTTPS redirect and the
\* body parser: apiKeyAuth, the url checks, and the filename is drawn.  The
\* body's filename field is not read.
GenArrive(r, key, url, hint) ==
    /\ gen[r].pc = "idle"
    /\ IF ApiKeyAuth(key) # 0
       THEN /\ gen' = [gen EXCEPT ![r] =
                         Answered("generate-pdf", key, url, hint, FALSE, ApiKeyAuth(key))]
            /\ UNCHANGED issued
       ELSE IF ~UrlAccepted(url)
       THEN /\ gen' = [gen EXCEPT ![r] =
                         Answered("generate-pdf", key, url, hint, TRUE, 400)]
            /\ UNCHANGED issued
       ELSE \E tok \in HexTokens \ issued :
            /\ gen' = [gen EXCEPT ![r] =
                         [IdleGen EXCEPT !.pc = "launch", !.tok = tok,
                                         !.route = "generate-pdf", !.key = key,
                                         !.url = url, !.hint = hint,
                                         !.reached = TRUE]]
            /\ issued' = issued \cup {tok}
    /\ UNCHANGED <<mtime, proc, genFrame>>

\* A request for another route arrives.  A protected route passes through
\* apiKeyAuth first.  Of these handlers only the entry is followed:
\* /debug-page checks that a url was given and goes on to launch a browser,
\* the others answer.
OtherArrive(r, route, key, url) ==
    /\ gen[r].pc = "idle"
    /\ route \in Routes \ {"generate-pdf"}
    /\ route # "debug-page" => url = "missing"
    /\ LET auth == IF route \in Protected THEN ApiKeyAuth(key) ELSE 0
       IN  gen' = [gen EXCEPT ![r] =
                IF auth # 0
                THEN Answered(route, key, url, NoHint, FALSE, auth)
                ELSE IF route = "debug-page" /\ url = "missing"
                THEN Answered(route, key, url, NoHint, TRUE, 400)
                ELSE [IdleGen EXCEPT !.pc = IF route = "debug-page"
                                            THEN "dbgLaunch" ELSE "handler",
                                     !.route = route, !.key = key, !.url = url,
                                     !.reached = TRUE]]
    /\ UNCHANGED <<mtime, issued, proc, genFrame>>

\* the handler of /files, /status, /download or /view answers
OtherAnswer(r, status) ==
    /\ gen[r].pc = "handler"
    /\ status \in {200, 400, 404, 500}
    /\ gen[r].route = "status" => status = 200
    /\ gen[r].route = "files" => status \in {200, 500}
    /\ gen' = [gen EXCEPT ![r].pc = "done", ![r].status = status, ![r].replies = 1]
    /\ UNCHANGED <<mtime, issued, proc, genFrame>>

\* POST /debug-page: browser = await puppeteer.launch(...)
DebugLaunch(r, ok) ==
    /\ gen[r].pc = "dbgLaunch"
    /\ IF ok
       THEN /\ gen' = [gen EXCEPT ![r].pc = "dbgPage", ![r].browser = TRUE,
                                  ![r].launches = @ + 1]
            /\ proc' = [proc EXCEPT ![r] = "open"]
       ELSE /\ gen' = [gen EXCEPT ![r].pc = "finally", ![r].status = 500,
                                  ![r].launches = @ + 1, ![r].replies = 1]
            /\ UNCHANGED proc
    /\ UNCHANGED <<mtime, issued, genFrame>>

\* POST /debug-page: newPage, setViewport, goto, evaluate, then res.json, or
\* the catch block's 500
DebugPage(r, ok) ==
    /\ gen[r].pc = "dbgPage"
    /\ gen' = [gen EXCEPT ![r].pc = "finally", ![r].replies = 1,
                          ![r].status = IF ok THEN 200 ELSE 500]
    /\ UNCHANGED <<mtime, issued, proc, genFrame>>

\* browser = await puppeteer.launch(...)
GenLaunch(r, ok) ==
    /\ gen[r].pc = "launch"
    /\ IF ok
       THEN /\ gen' = [gen EXCEPT ![r].pc = "newPage", ![r].browser = TRUE,
                                  ![r].launches = @ + 1]
            /\ proc' = [proc EXCEPT ![r] = "open"]
       ELSE /\ gen' = [gen EXCEPT ![r].pc = "catch", ![r].err = "launch",
                                  ![r].launches = @ + 1]
            /\ UNCHANGED proc
    /\ UNCHANGED <<mtime, issued, genFrame>>

\* The awaited page operations that can throw, in program order: newPage;
\* setRequestInterception, setViewport and setUserAgent; goto;
\* emulateMediaType; addStyleTag.
PageOps == {"newPage", "setup", "goto", "emulate", "styleTag"}

AfterOp(pc) ==
    CASE pc = "newPage" -> "setup"
      [] pc = "setup" -> "goto"
      [] pc = "goto" -> "emulate"
      [] pc = "emulate" -> "waitContent"
      [] pc = "styleTag" -> "settle"

\* an operation throws: error.message names it
GenPageOp(r, ok) ==
    /\ gen[r].pc \in PageOps
    /\ gen' = IF ok THEN [gen EXCEPT ![r].pc = AfterOp(gen[r].pc)]
              ELSE [gen EXCEPT ![r].pc = "catch", ![r].err = gen[r].pc]
    /\ UNCHANGED <<mtime, issued, proc, genFrame>>

\* await waitForContentLoad(page): returns, never throws
GenWaitContent(r) ==
    /\ gen[r].pc = "waitContent"
    /\ gen' = [gen EXCEPT ![r].pc = "styleTag"]
    /\ UNCHANGED <<mtime, issued, proc, genFrame>>

\* await new Promise(resolve => setTimeout(resolve, 3000))
GenSettle(r) ==
    /\ gen[r].pc = "settle"
    /\ gen' = [gen EXCEPT ![r].pc = "pdf"]
    /\ UNCHANGED <<mtime, issued, proc, genFrame>>

\* typeof of the landscape field of the body
TypeOf(field) ==
    CASE field \in {"true", "false"} -> "boolean"
      [] field = "absent" -> "undefined"
      [] field = "string" -> "string"

\* an orientation that follows the truthiness of the field
IsLandscape_Truthy(field) == field \in {"true", "string"}

\* const isLandscape = typeof landscape === 'boolean' ? landscape : true
IsLandscape(field) ==
    IF TypeOf(field) = "boolean" THEN field = "true" ELSE TRUE

\* await page.pdf({path: outputPath, landscape: isLandscape, ...}): the file
\* is written, or it throws
GenExport(r, field, ok) ==
    /\ gen[r].pc = "pdf"
    /\ field \in LandscapeFields
    /\ LET how == IF IsLandscape(field) THEN "landscape" ELSE "portrait"
       IN IF ok
          THEN /\ gen' = [gen EXCEPT ![r].pc = "respond", ![r].field = field,
                                     ![r].export = how]
               /\ mtime' = [mtime EXCEPT ![GeneratedName(gen[r].tok)] = now]
          ELSE /\ gen' = [gen EXCEPT ![r].pc = "catch", ![r].err = "pdf",
                                     ![r].field = field, ![r].export = how]
               /\ UNCHANGED mtime
    /\ UNCHANGED <<issued, proc, genFrame>>

\* res.status(200).json({success: true, downloadUrl, expiresIn: '1 hour',
\* filename})
SuccessBody(r) ==
    [success |-> "true", details |-> "none", expiresIn |-> "1 hour",
     filename |-> GeneratedName(gen[r].tok)]

GenRespond(r, ok) ==
    /\ gen[r].pc = "respond"
    /\ gen' = IF ok THEN [gen EXCEPT ![r].pc = "finally", ![r].status = 200,
                                     ![r].replies = @ + 1,
                                     ![r].body = SuccessBody(r)]
                    ELSE [gen EXCEPT ![r].pc = "catch", ![r].err = "respond"]
    /\ UNCHANGED <<mtime, issued, proc, genFrame>>

\* a catch block that does not pass the message on
CatchBody_NoDetails(err) ==
    [success |-> "false", details |-> "none", expiresIn |-> "none",
     filename |-> NoTok]

\* res.status(500).json({success: false, error: 'Failed to generate PDF.',
\* details: error.message})
CatchBody(err) ==
    [success |-> "false", details |-> err, expiresIn |-> "none",
     filename |-> NoTok]

\* catch (error)
GenCatch(r) ==
    /\ gen[r].pc = "catch"
    /\ gen' = [gen EXCEPT ![r].pc = "finally", ![r].status = 500,
                          ![r].replies = @ + 1, ![r].body = CatchBody(gen[r].err)]
    /\ UNCHANGED <<mtime, issued, proc, genFrame>>

\* a cleanup that closes the browser on the success path only
FinallyCloses_OnSuccessOnly(r) == gen[r].browser /\ gen[r].status = 200

\* finally { if (browser) ... }
FinallyCloses(r) == gen[r].browser

\* a close acting on a browser variable that the requests share: it closes
\* whatever browser is open
CloseBrowser_Shared(r) ==
    [q \in Reqs |-> IF proc[q] = "open" THEN "closed" ELSE proc[q]]

\* browser.close() on the handler's own variable (let browser = null)
CloseBrowser(r) == [proc EXCEPT ![r] = "closed"]

\* finally { if (browser) await browser.close(); }
GenFinally(r) ==
    /\ gen[r].pc = "finally"
    /\ gen' = [gen EXCEPT ![r].pc = "done"]
    /\ proc' = IF FinallyCloses(r) THEN CloseBrowser(r) ELSE proc
    /\ UNCHANGED <<mtime, issued, genFrame>>

\* the handler has returned; the next request can arrive
GenDone(r) ==
    /\ gen[r].pc = "done"
    /\ gen' = [gen EXCEPT ![r] = IdleGen]
    /\ proc' = IF proc[r] = "closed" THEN [proc EXCEPT ![r] = "none"] ELSE proc
    /\ UNCHANGED <<mtime, issued, genFrame>>

GenNext ==
    \/ \E r \in Reqs, key \in Keys, url \in Urls, hint \in Hints :
          GenArrive(r, key, url, hint)
    \/ \E r \in Reqs, route \in Routes, key \in Keys, url \in Urls :
          OtherArrive(r, route, key, url)
    \/ \E r \in Reqs, status \in {200, 400, 404, 500} : OtherAnswer(r, status)
    \/ \E r \in Reqs, ok \in BOOLEAN : DebugLaunch(r, ok)
    \/ \E r \in Reqs, ok \in BOOLEAN : DebugPage(r, ok)
    \/ \E r \in Reqs, ok \in BOOLEAN : GenLaunch(r, ok)
    \/ \E r \in Reqs, ok \in BOOLEAN : GenPageOp(r, ok)
    \/ \E r \in Reqs : GenWaitContent(r)
    \/ \E r \in Reqs : GenSettle(r)
    \/ \E r \in Reqs, field \in LandscapeFields, ok \in BOOLEAN :
          GenExport(r, field, ok)
    \/ \E r \in Reqs, ok \in BOOLEAN : GenRespond(r, ok)
    \/ \E r \in Reqs : GenCatch(r)
    \/ \E r \in Reqs : GenFinally(r)
    \/ \E r \in Reqs : GenDone(r)


(***************************************************************************)
(* GET /files of src/src/app.js.  The handler runs synchronously from      *)
(* readdirSync to res.json: while it runs no callback of the process runs, *)
(* but an unlink that a sweep has already issued can complete and the      *)
(* clock can advance.                                                      *)
(***************************************************************************)
IdleFl == [pc |-> "idle", listed |-> {}, toStat |-> {}, entries |-> {},
           status |-> 0, err |-> "none",
           totalFiles |-> 0, activeFiles |-> 0, expiredFiles |-> 0]

FilesInit == fl = IdleFl

\* status: timeRemaining <= 0 ? 'expired' : 'active'
FileStatus(timeRemaining) == IF timeRemaining <= 0 THEN "expired" ELSE "active"

\* the object that files.map builds from the stats of a file
FileInfo(f, m, t) ==
    LET createdAt == m
        expiresAt == createdAt + FILE_EXPIRATION_MS
        timeRemaining == expiresAt - t
    IN  [filename |-> f, createdAt |-> createdAt, expiresAt |-> expiresAt,
         status |-> FileStatus(timeRemaining)]

\* a count of the active files that takes every entry for active
ActiveFiles_All(infos) == Cardinality(infos)

\* fileInfos.filter(f => f.status === 'active').length
ActiveFiles(infos) == Cardinality({ e \in infos : e.status = "active" })

\* fileInfos.filter(f => f.status === 'expired').length
ExpiredFiles(infos) == Cardinality({ e \in infos : e.status = "expired" })

\* catch (error): res.status(500).json({success: false, ...})
FilesCatch(err) == [fl EXCEPT !.pc = "done", !.status = 500, !.err = err]

\* the request arrives: apiKeyAuth, then files = fs.readdirSync(OUTPUT_DIR)
FilesRequest(key, ok) ==
    /\ ~crashed
    /\ fl.pc = "idle"
    /\ fl' = IF ApiKeyAuth(key) # 0
             THEN [IdleFl EXCEPT !.pc = "done", !.status = ApiKeyAuth(key)]
             ELSE IF ~ok THEN FilesCatch("readdir")
             ELSE [IdleFl EXCEPT !.pc = "map", !.listed = Listing,
                                 !.toStat = Listing]
    /\ UNCHANGED filesFrame

\* files.map: fs.statSync(filePath) of the next file and its entry; a throw
\* (ENOENT when the file is gone, or another failure) ends the whole listing
\* in the catch block
FilesStat(f, ok) ==
    /\ ~crashed
    /\ fl.pc = "map"
    /\ f \in fl.toStat
    /\ fl' = IF ok /\ Present(f)
             THEN [fl EXCEPT !.toStat = @ \ {f},
                             !.entries = @ \cup {FileInfo(f, mtime[f], now)}]
             ELSE FilesCatch(IF Present(f) THEN "stat" ELSE "ENOENT")
    /\ UNCHANGED filesFrame

\* res.json({success: true, files, totalFiles, activeFiles, expiredFiles})
FilesRespond ==
    /\ ~crashed
    /\ fl.pc = "map"
    /\ fl.toStat = {}
    /\ fl' = [fl EXCEPT !.pc = "done", !.status = 200,
                        !.totalFiles = Cardinality(fl.entries),
                        !.activeFiles = ActiveFiles(fl.entries),
                        !.expiredFiles = ExpiredFiles(fl.entries)]
    /\ UNCHANGED filesFrame

\* the response has been sent; the next request can arrive
FilesDone ==
    /\ ~crashed
    /\ fl.pc = "done"
    /\ fl' = IdleFl
    /\ UNCHANGED filesFrame

\* no synchronous handler is in the middle of its run
NoHandlerRunning == fl.pc # "map"

FilesNext ==
    \/ Tick
    \/ NoHandlerRunning /\ GenPdf
    \/ \E s \in Sweeps : NoHandlerRunning /\ SweepStart(s)
    \/ \E s \in Sweeps, ok \in BOOLEAN : NoHandlerRunning /\ SweepReaddir(s, ok)
    \/ \E s \in Sweeps, f \in FileNames, ok \in BOOLEAN :
          NoHandlerRunning /\ SweepStat(s, f, ok)
    \/ \E s \in Sweeps, f \in FileNames, ok \in BOOLEAN : SweepUnlink(s, f, ok)
    \/ \E key \in Keys, ok \in BOOLEAN : FilesRequest(key, ok)
    \/ \E f \in FileNames, ok \in BOOLEAN : FilesStat(f, ok)
    \/ FilesRespond
    \/ FilesDone

(***************************************************************************)
(* The timers of waitForContentLoad and waitForImagesLoad.                 *)
(***************************************************************************)
ImageTimeoutMs == 15000

FontTimeoutMs == 5000

ApexTimeoutMs == 10000

ChartSettleMs == 5000

NoTimeout == -1

\* the timer of each phase; the evaluate call that runs window.Reports.init()
\* has none
PhaseTimeout(pc) ==
    CASE pc = "images" -> ImageTimeoutMs
      [] pc = "fonts" -> FontTimeoutMs
      [] pc = "apex" -> ApexTimeoutMs
      [] pc = "init" -> NoTimeout
      [] pc = "settle" -> ChartSettleMs

WaitingPhases == {"images", "fonts", "apex", "init", "settle"}

\* the sum of the phase timeouts and the fixed delay
WaitBound == ImageTimeoutMs + FontTimeoutMs + ApexTimeoutMs + ChartSettleMs

\* the clock of the waiter is followed up to one image timeout after WaitBound
ClockLimit == WaitBound + ImageTimeoutMs

(***************************************************************************)
(* POST /generate-pdf of src/server.js: the render pipeline is the async   *)
(* function pdfGenerationTask, raced against timeoutPromise.  hpc is the   *)
(* position of the handler, tpc the position of the task; the task keeps   *)
(* running when the race is lost.  The continuation of the handler after   *)
(* the race settles (catch, the start of finally) runs in the same turn of *)
(* the event loop as the step that settled it.                             *)
(***************************************************************************)
IdleSrv == [hpc |-> "idle", tpc |-> "none", timer |-> "off", browser |-> FALSE,
            status |-> 0, tok |-> NoTok, err |-> "none", waiter |-> "none",
            sends |-> 0]

\* the timer raced against waitForContentLoad, and the delay before page.pdf
ContentRaceMs == 25000

SettleMs == 3000

SrvInit ==
    /\ srv = [r \in Reqs |-> IdleSrv]
    /\ sproc = [r \in Reqs |-> "none"]

\* The request arrives: apiKeyAuth, the url checks, timeoutPromise is created,
\* the filename is drawn and pdfGenerationTask() runs up to puppeteer.launch.
SrvArrive(r, key, url) ==
    /\ srv[r].hpc = "idle"
    /\ IF ~KeyAccepted(key)
       THEN /\ srv' = [srv EXCEPT ![r] = [IdleSrv EXCEPT !.hpc = "done", !.status = 401,
                                                          !.sends = 1]]
            /\ UNCHANGED issued
       ELSE IF ~UrlAccepted(url)
       THEN /\ srv' = [srv EXCEPT ![r] = [IdleSrv EXCEPT !.hpc = "done", !.status = 400,
                                                          !.sends = 1]]
            /\ UNCHANGED issued
       ELSE \E tok \in HexTokens \ issued :
            /\ srv' = [srv EXCEPT ![r] = [IdleSrv EXCEPT !.hpc = "race", !.tpc = "launch",
                                                          !.timer = "armed", !.tok = tok]]
            /\ issued' = issued \cup {tok}
    /\ UNCHANGED <<mtime, sproc, srvFrame>>

\* The handler after Promise.race settled with outcome "ok", "timeout" or
\* "task": the catch block answers 408 or 500 (one more res.json), and
\* finally closes the browser if the variable browser is set by then.
AfterRace(rq, outcome) ==
    [rq EXCEPT !.hpc = IF rq.browser THEN "closing" ELSE "done",
               !.err = IF outcome = "ok" THEN "none" ELSE outcome,
               !.sends = IF outcome = "ok" THEN @ ELSE @ + 1,
               !.status = CASE outcome = "ok" -> rq.status
                            [] outcome = "timeout" -> 408
                            [] outcome = "task" -> 500]

\* finally { if (browser) { ... await browser.close() ... } }
ClosedByFinally(r, rq) == rq.browser

SprocAfterRace(r, rq) ==
    IF ClosedByFinally(r, rq) /\ sproc[r] = "open"
    THEN [sproc EXCEPT ![r] = "closed"]
    ELSE sproc

\* the task throws: it is rejected, and the race with it if still pending
TaskFails(r) ==
    LET rq == [srv[r] EXCEPT !.tpc = "failed"]
    IN  IF srv[r].hpc = "race"
        THEN /\ srv' = [srv EXCEPT ![r] = AfterRace(rq, "task")]
             /\ sproc' = SprocAfterRace(r, rq)
        ELSE /\ srv' = [srv EXCEPT ![r] = rq]
             /\ UNCHANGED sproc

\* setTimeout(() => reject(new Error('PDF generation timeout')), ...) fires;
\* the timer is never cleared
SrvTimeout(r) ==
    /\ srv[r].timer = "armed"
    /\ LET rq == [srv[r] EXCEPT !.timer = "fired"]
       IN  IF srv[r].hpc = "race"
           THEN /\ srv' = [srv EXCEPT ![r] = AfterRace(rq, "timeout")]
                /\ sproc' = SprocAfterRace(r, rq)
           ELSE /\ srv' = [srv EXCEPT ![r] = rq]
                /\ UNCHANGED sproc
    /\ UNCHANGED <<mtime, issued, srvFrame>>

\* browser = await puppeteer.launch(...)
SrvLaunch(r, ok) ==
    /\ srv[r].tpc = "launch"
    /\ IF ok
       THEN /\ srv' = [srv EXCEPT ![r].tpc = "newPage", ![r].browser = TRUE]
            /\ sproc' = [sproc EXCEPT ![r] = "open"]
       ELSE TaskFails(r)
    /\ UNCHANGED <<mtime, issued, srvFrame>>

\* The awaited page operations of the task that can throw: newPage;
\* setRequestInterception, setViewport and setUserAgent; goto;
\* emulateMediaType; addStyleTag; the final page.evaluate.  They throw when
\* the browser has been closed.
SrvPageOps == {"newPage", "setup", "goto", "emulate", "styleTag", "adjust"}

SrvAfterOp(pc) ==
    CASE pc = "newPage" -> "setup"
      [] pc = "setup" -> "goto"
      [] pc = "goto" -> "emulate"
      [] pc = "emulate" -> "waitContent"
      [] pc = "styleTag" -> "adjust"
      [] pc = "adjust" -> "settle"

SrvPageOp(r, ok) ==
    /\ srv[r].tpc \in SrvPageOps
    /\ IF ok /\ sproc[r] = "open"
       THEN /\ srv' = [srv EXCEPT ![r].tpc = SrvAfterOp(srv[r].tpc)]
            /\ UNCHANGED sproc
       ELSE TaskFails(r)
    /\ UNCHANGED <<mtime, issued, srvFrame>>

\* Promise.race([waitForContentLoad(page), 25 s timer]) is entered: the
\* waiter starts and the timer is set.  The race never throws.  The waiter
\* runs for up to WaitBound, and longer while window.Reports.init() runs;
\* it is not stopped when the timer wins.
SrvWaitContent(r) ==
    /\ srv[r].tpc = "waitContent"
    /\ srv' = [srv EXCEPT ![r].tpc = "raceContent", ![r].waiter = "running"]
    /\ UNCHANGED <<mtime, issued, sproc, srvFrame>>

\* waitForContentLoad returns (its page operations throw and are caught
\* when the browser has been closed); the race resolves if still pending
SrvWaiterReturns(r) ==
    /\ srv[r].waiter = "running"
    /\ srv' = [srv EXCEPT ![r].waiter = "returned",
                          ![r].tpc = IF @ = "raceContent" THEN "styleTag" ELSE @]
    /\ UNCHANGED <<mtime, issued, sproc, srvFrame>>

\* the 25 s timer fires before the waiter has returned: the race resolves
SrvContentTimer(r) ==
    /\ srv[r].tpc = "raceContent"
    /\ ContentRaceMs < WaitBound
    /\ srv' = [srv EXCEPT ![r].tpc = "styleTag"]
    /\ UNCHANGED <<mtime, issued, sproc, srvFrame>>

\* await new Promise(resolve => setTimeout(resolve, 3000)); a waiter that
\* lost the race can still be running when the delay ends
SrvSettle(r) ==
    /\ srv[r].tpc = "settle"
    /\ srv[r].waiter = "running" => ContentRaceMs + SettleMs < WaitBound
    /\ srv' = [srv EXCEPT ![r].tpc = "pdf"]
    /\ UNCHANGED <<mtime, issued, sproc, srvFrame>>

\* await page.pdf(pdfOptions): the file is written, or it throws
SrvExport(r, ok) ==
    /\ srv[r].tpc = "pdf"
    /\ IF ok /\ sproc[r] = "open"
       THEN /\ srv' = [srv EXCEPT ![r].tpc = "respond"]
            /\ mtime' = [mtime EXCEPT ![GeneratedName(srv[r].tok)] = now]
            /\ UNCHANGED sproc
       ELSE /\ TaskFails(r)
            /\ UNCHANGED mtime
    /\ UNCHANGED <<issued, srvFrame>>

\* res.status(200).json(...) at the end of the task: it throws when a
\* response has been sent already; otherwise the task ends and the race
\* resolves
SrvRespond(r) ==
    /\ srv[r].tpc = "respond"
    /\ IF srv[r].status # 0
       THEN /\ srv' = [srv EXCEPT ![r].tpc = "failed", ![r].sends = @ + 1]
            /\ UNCHANGED sproc
       ELSE LET rq == [srv[r] EXCEPT !.tpc = "ended", !.status = 200,
                                    !.sends = @ + 1]
            IN  /\ srv' = [srv EXCEPT ![r] = AfterRace(rq, "ok")]
                /\ sproc' = SprocAfterRace(r, rq)
    /\ UNCHANGED <<mtime, issued, srvFrame>>

\* await browser.close() returns (or throws, which is caught and logged)
SrvClosed(r) ==
    /\ srv[r].hpc = "closing"
    /\ srv' = [srv EXCEPT ![r].hpc = "done"]
    /\ UNCHANGED <<mtime, issued, sproc, srvFrame>>

SrvNext ==
    \/ \E r \in Reqs, key \in Keys, url \in Urls : SrvArrive(r, key, url)
    \/ \E r \in Reqs : SrvTimeout(r)
    \/ \E r \in Reqs, ok \in BOOLEAN : SrvLaunch(r, ok)
    \/ \E r \in Reqs, ok \in BOOLEAN : SrvPageOp(r, ok)
    \/ \E r \in Reqs : SrvWaitContent(r)
    \/ \E r \in Reqs : SrvWaiterReturns(r)
    \/ \E r \in Reqs : SrvContentTimer(r)
    \/ \E r \in Reqs : SrvSettle(r)
    \/ \E r \in Reqs, ok \in BOOLEAN : SrvExport(r, ok)
    \/ \E r \in Reqs : SrvRespond(r)
    \/ \E r \in Reqs : SrvClosed(r)

(***************************************************************************)
(* waitForContentLoad and waitForImagesLoad of src/src/app.js.  A call to  *)
(* the page (evaluate, evaluateHandle, waitForFunction) returns or throws. *)
(* Time passes while the waiter waits for an event or a timer, and while   *)
(* window.Reports.init(), a function of the page, runs inside the awaited  *)
(* page.evaluate: that call has no timeout.                                *)
(***************************************************************************)
Images == 1..MaxImages

NoImage == [present |-> FALSE, complete |-> FALSE, natural |-> FALSE,
            src |-> FALSE, listening |-> FALSE]

\* An <img> when waitForImagesLoad is called: loaded (complete, with a
\* natural width), broken (complete after an error, natural width 0),
\* without a src (complete, natural width 0), or still loading.
ImageKinds ==
    { [present |-> TRUE, complete |-> TRUE,  natural |-> TRUE,  src |-> TRUE,
       listening |-> FALSE],
      [present |-> TRUE, complete |-> TRUE,  natural |-> FALSE, src |-> TRUE,
       listening |-> FALSE],
      [present |-> TRUE, complete |-> TRUE,  natural |-> FALSE, src |-> FALSE,
       listening |-> FALSE],
      [present |-> TRUE, complete |-> FALSE, natural |-> FALSE, src |-> TRUE,
       listening |-> FALSE] }

\* img.complete && img.naturalWidth > 0
AlreadyLoaded(im) == im.complete /\ im.natural

IdleW == [pc |-> "idle", clock |-> 0, elapsed |-> 0, result |-> "pending",
          apex |-> "pending"]

IdleIp == [total |-> 0, loaded |-> 0, resolved |-> FALSE]

IdlePage == [apex |-> FALSE, reports |-> FALSE, initCalled |-> FALSE,
             reinit |-> FALSE]

\* no waiter and an empty page
WaitIdle ==
    /\ w = IdleW
    /\ ip = IdleIp
    /\ img = [i \in Images |-> NoImage]
    /\ page = IdlePage

\* a page with 0..MaxImages images of any kind, with or without
\* window.ApexCharts and window.Reports
WaitInit ==
    /\ w = IdleW
    /\ ip = IdleIp
    /\ \E n \in 0..MaxImages :
         img \in [Images -> ImageKinds \cup {NoImage}]
         /\ \A i \in Images : img[i].present <=> i <= n
    /\ page \in {[IdlePage EXCEPT !.apex = a, !.reports = r] : a, r \in BOOLEAN}

\* a waiter whose image wait is outside the try block
InTryBlock_ImagesOutside(pc) == pc # "images"

\* try { ... } catch (error) { console.log(...) } encloses every phase
InTryBlock(pc) == TRUE

\* a phase throws: the catch block logs and the function returns; outside
\* the try block the promise of the async function is rejected
Thrown(pc) ==
    [w EXCEPT !.pc = "done", !.clock = 0,
              !.result = IF InTryBlock(pc) THEN "resolved" ELSE "rejected"]

Enter(pc) == [w EXCEPT !.pc = pc, !.clock = 0]

\* checkComplete, called for every image of `done`: loadedImages++ and
\* resolve() when loadedImages === totalImages
RECURSIVE CheckComplete(_, _)
CheckComplete(st, n) ==
    IF n = 0 THEN st
    ELSE CheckComplete([st EXCEPT !.loaded = @ + 1,
                                  !.resolved = @ \/ (st.loaded + 1 = st.total)],
                       n - 1)

\* waitForContentLoad is called: page.waitForLoadState is undefined in
\* puppeteer, so line 244 waits for nothing; waitForImagesLoad evaluates its
\* function in the page: no image resolves at once, an image that is
\* complete with a natural width is counted, the others get their load and
\* error listeners (and are reloaded when they have a src) and the 15 s
\* timer is set.
WStart ==
    /\ w.pc = "idle"
    /\ LET present == {i \in Images : img[i].present}
           ready == {i \in present : AlreadyLoaded(img[i])}
           st0 == [total |-> Cardinality(present), loaded |-> 0,
                   resolved |-> present = {}]
       IN  /\ ip' = CheckComplete(st0, Cardinality(ready))
           /\ img' = [i \in Images |->
                        IF i \in present \ ready
                        THEN [img[i] EXCEPT !.listening = TRUE]
                        ELSE img[i]]
    /\ w' = Enter("images")
    /\ UNCHANGED <<page, waitFrame>>

\* listeners that stay on the image after its event
RemoveListeners_Kept(im) == im

\* img.removeEventListener('load', onLoad);
\* img.removeEventListener('error', onError)
RemoveListeners(im) == [im EXCEPT !.listening = FALSE]

\* a load or an error event of an image that is loading or was reloaded,
\* any number of times: onLoad and onError remove both listeners and call
\* checkComplete
ImgEvent(i, kind) ==
    /\ w.pc # "idle"
    /\ img[i].present /\ img[i].src /\ ~AlreadyLoaded(img[i])
    /\ kind \in {"load", "error"}
    /\ IF img[i].listening
       THEN /\ img' = [img EXCEPT ![i] = RemoveListeners(img[i])]
            /\ ip' = CheckComplete(ip, 1)
       ELSE UNCHANGED <<img, ip>>
    /\ UNCHANGED <<w, page, waitFrame>>

\* time passes while the waiter waits for an event or a timer, or while
\* window.Reports.init() of the page runs inside page.evaluate
WAdvance ==
    /\ w.pc \in WaitingPhases
    /\ w.pc = "init" => page.reports
    /\ w.pc = "images" => ~ip.resolved
    /\ w.elapsed < ClockLimit
    /\ LET limit == PhaseTimeout(w.pc)
           step == IF limit = NoTimeout THEN ApexTimeoutMs \div Slices
                   ELSE limit \div Slices
           next == IF limit # NoTimeout /\ w.clock + step > limit
                   THEN limit ELSE w.clock + step
       IN  /\ limit = NoTimeout \/ w.clock < limit
           /\ w' = [w EXCEPT !.clock = next, !.elapsed = @ + (next - w.clock)]
    /\ UNCHANGED <<ip, img, page, waitFrame>>

TimerDue == PhaseTimeout(w.pc) # NoTimeout /\ w.clock = PhaseTimeout(w.pc)

\* the 15 s timer of the in-page promise fires: resolve()
ImgTimer ==
    /\ w.pc = "images"
    /\ TimerDue
    /\ ~ip.resolved
    /\ ip' = [ip EXCEPT !.resolved = TRUE]
    /\ UNCHANGED <<w, img, page, waitFrame>>

\* await page.evaluate(...) of waitForImagesLoad returns once the in-page
\* promise is resolved, or throws
WImages(ok) ==
    /\ w.pc = "images"
    /\ IF ok
       THEN ip.resolved /\ w' = Enter("fonts")
       ELSE w' = Thrown("images")
    /\ UNCHANGED <<ip, img, page, waitFrame>>

\* await Promise.race([page.evaluateHandle(() => document.fonts.ready),
\* 5 s timer]): the fonts are ready, the call throws, or the timer fires
WFonts(outcome) ==
    /\ w.pc = "fonts"
    /\ outcome \in {"ready", "throws", "timer"}
    /\ outcome = "timer" => TimerDue
    /\ w' = IF outcome = "throws" THEN Thrown("fonts") ELSE Enter("apex")
    /\ UNCHANGED <<ip, img, page, waitFrame>>

\* a script of the page defines window.ApexCharts
PageLoadsApex ==
    /\ w.pc \notin {"idle", "done"}
    /\ ~page.apex
    /\ page' = [page EXCEPT !.apex = TRUE]
    /\ UNCHANGED <<w, ip, img, waitFrame>>

\* await page.waitForFunction(() => typeof window.ApexCharts !== 'undefined',
\* {timeout: 10000}).catch(...): found, or timed out, or failed; the catch
\* swallows both
WApex(outcome) ==
    /\ w.pc = "apex"
    /\ outcome \in {"found", "throws", "timer"}
    /\ outcome = "found" => page.apex
    /\ outcome = "timer" => (TimerDue /\ ~page.apex)
    /\ w' = [Enter("init") EXCEPT !.apex = outcome]
    /\ UNCHANGED <<ip, img, page, waitFrame>>

\* await page.evaluate(...): Reports.init() is called when window.Reports
\* has it; with window.ApexCharts and window.Reports the re-initialisation
\* is scheduled; the call returns or throws
WInitCharts(ok) ==
    /\ w.pc = "init"
    /\ IF ok
       THEN /\ w' = Enter("settle")
            /\ page' = [page EXCEPT !.initCalled = page.reports,
                                    !.reinit = page.apex /\ page.reports]
       ELSE /\ w' = Thrown("init")
            /\ UNCHANGED page
    /\ UNCHANGED <<ip, img, waitFrame>>

\* await new Promise(resolve => setTimeout(resolve, 5000)), then return
WSettle ==
    /\ w.pc = "settle"
    /\ TimerDue
    /\ w' = [w EXCEPT !.pc = "done", !.clock = 0, !.result = "resolved"]
    /\ UNCHANGED <<ip, img, page, waitFrame>>

WaitNext ==
    \/ WStart
    \/ \E i \in Images, kind \in {"load", "error"} : ImgEvent(i, kind)
    \/ WAdvance
    \/ ImgTimer
    \/ \E ok \in BOOLEAN : WImages(ok)
    \/ \E outcome \in {"ready", "throws", "timer"} : WFonts(outcome)
    \/ PageLoadsApex
    \/ \E outcome \in {"found", "throws", "timer"} : WApex(outcome)
    \/ \E ok \in BOOLEAN : WInitCharts(ok)
    \/ WSettle

\* timers fire, time passes, and a call to the page returns
WaitFairness ==
    /\ WF_vars(WStart) /\ WF_vars(WAdvance) /\ WF_vars(ImgTimer)
    /\ WF_vars(\E ok \in BOOLEAN : WImages(ok))
    /\ WF_vars(\E outcome \in {"ready", "throws", "timer"} : WFonts(outcome))
    /\ WF_vars(\E outcome \in {"found", "throws", "timer"} : WApex(outcome))
    /\ WF_vars(\E ok \in BOOLEAN : WInitCharts(ok))
    /\ WF_vars(WSettle)


Init == StoreInit /\ GenInit /\ FilesInit /\ SrvInit /\ WaitIdle

Next == StoreNext

GenSpecInit == StoreInit /\ GenInitAny /\ FilesInit /\ SrvInit /\ WaitIdle

SpecGen == GenSpecInit /\ [][GenNext]_vars

SpecFiles == Init /\ [][FilesNext]_vars

\* the three handlers that read the directory, beside the sweep
ServeNext ==
    \/ FilesNext
    \/ \E kind \in Kinds, name \in FileNames :
          NoHandlerRunning /\ DlRequest(kind, name)
    \/ NoHandlerRunning /\ DlExists
    \/ NoHandlerRunning /\ DlStat
    \/ DlOpen
    \/ NoHandlerRunning /\ DlDone

SpecServe == Init /\ [][ServeNext]_vars

SpecServer == Init /\ [][SrvNext]_vars

WaiterInit == StoreIdle /\ GenInit /\ FilesInit /\ SrvInit /\ WaitInit

SpecWaiter == WaiterInit /\ [][WaitNext]_vars

SpecWaiterLive == WaiterInit /\ [][WaitNext]_vars /\ WaitFairness

Spec == Init /\ [][Next]_vars

(***************************************************************************)
(* The store under fair scheduling: the clock advances, the interval timer *)
(* keeps firing, and a readdir, stat or unlink that is retried forever     *)
(* eventually succeeds.                                                    *)
(***************************************************************************)
StoreFairness ==
    /\ WF_vars(Tick)
    /\ SF_vars(\E s \in Sweeps : SweepStart(s))
    /\ \A s \in Sweeps : SF_vars(SweepReaddir(s, TRUE))
    /\ \A s \in Sweeps : SF_vars(\E f \in FileNames : SweepStat(s, f, TRUE))
    /\ \A s \in Sweeps : SF_vars(\E f \in FileNames : SweepUnlink(s, f, TRUE))
    /\ WF_vars(DlExists) /\ WF_vars(DlStat) /\ WF_vars(DlOpen) /\ WF_vars(DlDone)

LiveSpec == Init /\ [][Next]_vars /\ StoreFairness

(***************************************************************************)
(* C1.  A browser launched by POST /generate-pdf is closed before the      *)
(* handler finishes, after a successful export and after any step throws.  *)
(***************************************************************************)
C1_BrowserClosedAtExit ==
    \A r \in Reqs : gen[r].pc = "done" => proc[r] # "open"

\* one request ended 500 after its browser was launched, the other ended
\* 200; both browsers are closed
C1_Witness ==
    \E r, q \in Reqs :
        /\ gen[r].route = "generate-pdf" /\ gen[q].route = "generate-pdf"
        /\ gen[r].pc = "done" /\ gen[r].status = 500 /\ gen[r].browser
        /\ proc[r] = "closed"
        /\ gen[q].pc = "done" /\ gen[q].status = 200 /\ proc[q] = "closed"

(***************************************************************************)
(* C2.  When the outer deadline expires before the pipeline finishes, the  *)
(* request is answered 408 and no browser launched for it is left open,    *)
(* at whatever point the deadline fires.                                   *)
(***************************************************************************)
C2_TimeoutClosesBrowser ==
    \A r \in Reqs :
        (srv[r].err = "timeout" /\ srv[r].hpc = "done"
            /\ srv[r].tpc \in {"ended", "failed"})
          => (srv[r].status = 408 /\ sproc[r] # "open")

(***************************************************************************)
(* C3.  GET /download and GET /view answer 400, before any filesystem      *)
(* access, for every filename that does not match ^[a-zA-Z0-9_-]+\.pdf$,   *)
(* also when a file of that name is in the storage directory.              *)
(***************************************************************************)
C3_InvalidNameRejected ==
    (dl.pc # "idle" /\ ~MatchesPdfPattern(dl.name))
        => (dl.pc = "done" /\ dl.status = 400 /\ dl.fsOps = 0)

\* /view of the foreign file "a..pdf", which is in the directory: 400
C3_Witness ==
    /\ dl.pc = "done" /\ dl.kind = "view" /\ dl.status = 400
    /\ dl.name \in ForeignNames /\ Present(dl.name)
    /\ IncludesDotDot(dl.name)

(***************************************************************************)
(* C4.  A valid filename is served (200) if and only if the file exists    *)
(* and now <= mtime + TTL; every other request for a valid name is         *)
(* answered 404.                                                           *)
(***************************************************************************)
C4_ServedIffUnexpired ==
    [][ (dl.pc \notin {"idle", "done"} /\ dl'.pc = "done")
          => LET live == Present(dl.name)
                          /\ now <= mtime[dl.name] + FILE_EXPIRATION_MS
             IN  /\ (dl'.status = 200) <=> live
                 /\ ~live => dl'.status = 404 ]_vars

(***************************************************************************)
(* C5.  Every artifact is eventually removed by the sweep and stays        *)
(* removed (so that /view and /download answer 404 from then on).          *)
(***************************************************************************)
C5_EveryArtifactSwept ==
    \A f \in StoreNames : Present(f) ~> [](~Present(f))

(***************************************************************************)
(* C6.  The sweep deletes only expired files: a file that a sweep decides  *)
(* to unlink, and a file that leaves the directory, is older than the TTL  *)
(* at that moment.                                                         *)
(***************************************************************************)
C6_OnlyExpiredUnlinked ==
    [][ \A f \in FileNames :
          /\ (Present(f) /\ ~Present(f)') => now - mtime[f] > FILE_EXPIRATION_MS
          /\ \A s \in Sweeps :
                (f \in sweep'[s].toUnlink /\ f \notin sweep[s].toUnlink)
                  => (Present(f) /\ now - mtime[f] > FILE_EXPIRATION_MS) ]_vars

\* a sweep that ran alone, with no file created since it started, is about
\* to unlink the expired foreign file and has kept a file whose age is
\* exactly the TTL
C6_Witness ==
    \E s \in Sweeps, f \in GenNames, g \in ForeignNames :
        /\ sweep[s].phase = "run" /\ sweep[s].toStat = {} /\ sweep[s].toUnlink = {g}
        /\ pair.run.valid /\ pair.run.slot = s /\ ~pair.run.created
        /\ Present(f) /\ now - mtime[f] = FILE_EXPIRATION_MS

(***************************************************************************)
(* C7.  As claimed: when a sweep runs after another sweep has ended and no *)
(* file was created since the first one started, the second sweep deletes  *)
(* nothing.                                                                *)
(***************************************************************************)
C7_SecondSweepDeletesNothing ==
    [][ SecondSweepRuns => Listing \subseteq Listing' ]_vars

(***************************************************************************)
(* C7, amended.  The second sweep deletes nothing provided that, since the *)
(* first sweep started, no file was created, no file of the directory      *)
(* passed its expiry, and no readdir, stat or unlink of the first sweep    *)
(* failed.                                                                 *)
(***************************************************************************)
C7_SecondSweepNoOp ==
    [][ (SecondSweepRuns /\ ~pair.prev.crossed /\ ~pair.prev.failed)
          => Listing \subseteq Listing' ]_vars

\* the second sweep has examined one of two files and kept it
C7_Witness ==
    /\ SecondSweepRuns /\ ~pair.prev.crossed /\ ~pair.prev.failed
    /\ Cardinality(Listing) = 2
    /\ sweep[pair.run.slot].phase = "run"
    /\ Cardinality(sweep[pair.run.slot].toStat) = 1
    /\ sweep[pair.run.slot].toUnlink = {}

(***************************************************************************)
(* C8.  waitForContentLoad never fails its caller: whatever the phases do  *)
(* (condition met, timeout, an error thrown by the page), the promise it   *)
(* returns is resolved, never rejected.                                    *)
(***************************************************************************)
C8_WaiterNeverRejects ==
    /\ w.result # "rejected"
    /\ w.pc = "done" => w.result = "resolved"

\* the image phase threw and the waiter returned normally
C8_Witness ==
    /\ w.pc = "done" /\ w.result = "resolved"
    /\ ip.total > 0 /\ ~ip.resolved
    /\ w.elapsed < WaitBound

(***************************************************************************)
(* C9.  waitForContentLoad always terminates, and the time it has waited   *)
(* never exceeds the sum of the phase timeouts and the fixed delay,        *)
(* whatever the page contains, also with an image whose load and error     *)
(* events never fire.                                                      *)
(***************************************************************************)
C9_WaiterBounded ==
    /\ [](w.elapsed <= WaitBound)
    /\ <>(w.pc = "done")

(***************************************************************************)
(* C10.  A sweep that deletes a file while /download or /view serves it    *)
(* never ends in an unhandled error that crashes the process.              *)
(***************************************************************************)
C10_RaceTolerated == ~crashed

(***************************************************************************)
(* C11.  Within a sweep a stat or unlink failure on one file, also on a    *)
(* file that is already missing, is confined to that file: no step makes a *)
(* sweep give up more than the one file it handled, and no step of a sweep *)
(* throws.                                                                 *)
(***************************************************************************)
C11_FailureConfined ==
    [][ \A s \in Sweeps :
          LET gone == Pending(sweep[s]) \ Pending(sweep'[s])
          IN  /\ Cardinality(gone) <= 1
              /\ sweep'[s] # sweep[s] => crashed' = crashed ]_vars

\* a stat or unlink of the sweep that runs alone has failed, and the sweep
\* goes on: it is about to unlink another file, which is expired
C11_Witness ==
    \E s \in Sweeps, g \in StoreNames :
        /\ pair.run.valid /\ pair.run.slot = s /\ pair.run.failed
        /\ sweep[s].phase = "run" /\ sweep[s].toUnlink = {g}
        /\ Present(g) /\ Expired(g)

(***************************************************************************)
(* C12: a successful POST /generate-pdf that carried a filename has stored *)
(* the PDF under the sanitized form of that name and reports that name;    *)
(* one that carried none reports a generated hex name.                     *)
(***************************************************************************)
C12_StoredUnderGivenName ==
    \A r \in Reqs :
        (gen[r].pc = "done" /\ gen[r].route = "generate-pdf" /\ gen[r].status = 200)
        => IF gen[r].hint # NoHint
           THEN /\ gen[r].body.filename = SanitizedName(gen[r].hint)
                /\ Present(SanitizedName(gen[r].hint))
           ELSE gen[r].body.filename \in GenNames

(***************************************************************************)
(* C13: when two POST /generate-pdf requests that carried the same         *)
(* filename have both finished, the files they wrote are one file, of that *)
(* name.                                                                   *)
(***************************************************************************)
C13_OneArtifactPerName ==
    \A r1, r2 \in Reqs :
        ( /\ r1 # r2
          /\ \A r \in {r1, r2} :
                /\ gen[r].pc = "done" /\ gen[r].route = "generate-pdf"
                /\ gen[r].status = 200
          /\ gen[r1].hint # NoHint /\ gen[r1].hint = gen[r2].hint )
        => /\ { f \in FileNames : Present(f) } \ ForeignNames
               = { SanitizedName(gen[r1].hint) }
           /\ gen[r1].body.filename = gen[r2].body.filename

C15_BadUrlRejected ==
    \A r \in Reqs :
        ( /\ gen[r].route = "generate-pdf" /\ ApiKeyAuth(gen[r].key) = 0
          /\ gen[r].url \in {"missing", "malformed"} )
        => /\ gen[r].pc = "done" /\ gen[r].status = 400 /\ gen[r].replies = 1
           /\ gen[r].launches = 0 /\ ~gen[r].browser /\ proc[r] # "open"
           /\ gen[r].tok = NoTok /\ gen[r].export = "none"

\* one request without a url and one with a malformed url were answered 400
C15_Witness ==
    \E r, q \in Reqs :
        /\ gen[r].route = "generate-pdf" /\ gen[r].key = "valid"
        /\ gen[r].url = "missing" /\ gen[r].status = 400
        /\ gen[q].route = "generate-pdf" /\ gen[q].key = "valid"
        /\ gen[q].url = "malformed" /\ gen[q].status = 400

C19_ExpiresInIsTtl ==
    \A r \in Reqs :
        ( /\ gen[r].route = "generate-pdf" /\ gen[r].status = 200
          /\ gen[r].pc \in {"finally", "done"} )
        => DurationMs(gen[r].body.expiresIn) = env.expirationMs

(***************************************************************************)
(* C20: the export of POST /generate-pdf is in portrait exactly when the   *)
(* request's landscape field is the boolean false; with the boolean true,  *)
(* with no field, and with a field that is not a boolean it is in          *)
(* landscape.                                                              *)
(***************************************************************************)
C20_LandscapeByDefault ==
    \A r \in Reqs :
        gen[r].export # "none"
        => /\ gen[r].field = "false" => gen[r].export = "portrait"
           /\ gen[r].field = "true" => gen[r].export = "landscape"
           /\ gen[r].field \in {"absent", "string"} => gen[r].export = "landscape"

\* one export ran in portrait for the boolean false, another in landscape
\* for a request without the field or with a non-boolean
C20_Witness ==
    \E r, q \in Reqs :
        /\ gen[r].field = "false" /\ gen[r].export = "portrait"
        /\ gen[r].status = 200
        /\ gen[q].field \in {"absent", "string"} /\ gen[q].export = "landscape"
        /\ gen[q].status = 200

C22_ResolvesWhenSettled ==
    w.pc = "images" =>
        LET settled == \A i \in Images :
                          img[i].present => (img[i].complete \/ ~img[i].listening)
        IN  /\ settled => ip.resolved
            /\ ip.resolved => (settled \/ w.clock = ImageTimeoutMs)

(***************************************************************************)
(* C23: when the wait for window.ApexCharts timed out without finding it,  *)
(* no initialization entry point of the page (Reports.init,                *)
(* Reports.initializeAllCharts, Reports.initializeMiniCharts) is invoked   *)
(* or scheduled; when it was found and the waiter has gone on to the       *)
(* chart delay, Reports.init has been invoked if the page exposes Reports. *)
(***************************************************************************)
C23_ChartsBestEffort ==
    /\ w.apex = "timer" => (~page.initCalled /\ ~page.reinit)
    /\ (w.apex = "found" /\ w.pc = "settle") => (page.initCalled <=> page.reports)

(***************************************************************************)
(* C30: in the image phase the counter loadedImages is the number of       *)
(* images that were counted at the call or whose listeners have run once,  *)
(* whatever load and error events the images fire; it never exceeds        *)
(* totalImages, and it reaches totalImages only when every image has been  *)
(* counted.                                                                *)
(***************************************************************************)
C30_CountedOnce ==
    LET counted == { i \in Images : img[i].present /\ ~img[i].listening }
    IN  /\ ip.loaded <= ip.total
        /\ w.pc # "idle" =>
              /\ ip.loaded = Cardinality(counted)
              /\ ip.loaded = ip.total =>
                    \A i \in Images : img[i].present => i \in counted

\* two images that were not loaded at the call have each been counted by
\* an event, and the counter resolved the promise before the timer
C30_Witness ==
    /\ w.pc = "images" /\ w.clock < ImageTimeoutMs
    /\ ip.total = 2 /\ ip.loaded = 2 /\ ip.resolved
    /\ \A i \in Images : img[i].present /\ ~AlreadyLoaded(img[i])

(***************************************************************************)
(* C21: page.pdf of a POST /generate-pdf starts and runs only after the    *)
(* readiness waiter of that request has returned (and after the delay that *)
(* follows it), so that the waiter is not operating on the page while the  *)
(* export runs.                                                            *)
(***************************************************************************)
C21_ExportAfterWaiter ==
    \A r \in Reqs :
        srv[r].tpc \in {"pdf", "respond", "ended"} => srv[r].waiter = "returned"

(***************************************************************************)
(* C27: res.json is called at most once for a POST /generate-pdf, and a    *)
(* request whose handler has finished got one response, with status 200,   *)
(* 400, 401, 408 or 500.                                                   *)
(***************************************************************************)
C27_OneResponse ==
    \A r \in Reqs :
        /\ srv[r].sends <= 1
        /\ srv[r].hpc = "done" =>
              (srv[r].sends = 1 /\ srv[r].status \in {200, 400, 401, 408, 500})

(***************************************************************************)
(* C28: the file of a POST /generate-pdf that was answered 400, 401, 408   *)
(* or 500 is not in the storage directory, neither when the response is    *)
(* sent nor later.                                                         *)
(***************************************************************************)
C28_FailureLeavesNoFile ==
    \A r \in Reqs :
        (srv[r].status \in {400, 401, 408, 500} /\ srv[r].tok # NoTok)
        => ~Present(GeneratedName(srv[r].tok))

(***************************************************************************)
(* C24: every step of the POST /generate-pdf handlers belongs to one       *)
(* request and leaves the other request's position, response, browser and  *)
(* file as they were; two requests in progress never hold the same         *)
(* filename.                                                               *)
(***************************************************************************)
C24_RequestsIsolated ==
    [][ /\ \E r \in Reqs : \A q \in Reqs \ {r} :
              /\ gen'[q] = gen[q] /\ proc'[q] = proc[q]
              /\ gen[q].tok # NoTok =>
                    mtime'[GeneratedName(gen[q].tok)] = mtime[GeneratedName(gen[q].tok)]
        /\ \A r, q \in Reqs :
              (r # q /\ gen'[r].tok # NoTok) => gen'[r].tok # gen'[q].tok ]_vars

\* one request has failed and closed its browser while the browser of the
\* other, still rendering, is open
C24_Witness ==
    \E r, q \in Reqs :
        /\ gen[r].route = "generate-pdf" /\ gen[r].pc = "done"
        /\ gen[r].status = 500 /\ proc[r] = "closed"
        /\ gen[q].route = "generate-pdf" /\ gen[q].pc = "pdf" /\ proc[q] = "open"

C26_ListingSurvivesRemoval ==
    (fl.pc = "done" /\ fl.status # 401 /\ fl.err \notin {"readdir", "stat"})
    => /\ fl.status = 200
       /\ { e.filename : e \in fl.entries } \subseteq fl.listed
       /\ \A f \in fl.listed :
             Present(f) => f \in { e.filename : e \in fl.entries }

(***************************************************************************)
(* C29: the status that GET /files gives a file is "expired" exactly when  *)
(* the expiry test of the sweep, applied to the same mtime at the same     *)
(* instant, holds.                                                         *)
(***************************************************************************)
C29_ListingAgreesWithSweep ==
    [][ \A e \in fl'.entries \ fl.entries :
           (e.status = "expired") <=> ExpiredAt(e.createdAt, now) ]_vars

====
